---- MODULE Spec2Model ----
(***************************************************************************)
(* Model of pipeline_components/bigquery/bigquery/extract_dataset/         *)
(* component.py: one invocation of extract_bq_to_dataset, statement by     *)
(* statement, together with the outcomes the BigQuery client library and   *)
(* the backend can produce at each call.                                   *)
(*                                                                         *)
(* Strings are sequences of one-character strings, so that os.path.join    *)
(* and os.path.dirname are computed and not assumed.                       *)
(***************************************************************************)
EXTENDS Integers, Sequences, FiniteSets, TLC

\* ------------------------------------------------------------------ bounds
MaxUriLen == 3
MaxPatternLen == 2
MaxIdLen == 1

\* --------------------------------------------------------------- alphabets
sep == "/"
PathChars == {"a", sep}
IdChars == {"t", "."}

SeqsUpTo(S, n) == UNION {[1..k -> S] : k \in 0..n}

\* An optional value (Python None or a value).
None == [isNone |-> TRUE, val |-> <<>>]
Some(v) == [isNone |-> FALSE, val |-> v]

\* ------------------------------------------------------- input domains
Uris == SeqsUpTo(PathChars, MaxUriLen)
FilePatterns == {None} \cup {Some(p) : p \in SeqsUpTo(PathChars, MaxPatternLen)}
TableNames == SeqsUpTo(IdChars, MaxIdLen) \ {<<>>}
ProjectIds == {<<"p">>}
DatasetIds == {<<"d">>}
Locations == {"EU"}

\* ExtractJobConfig properties of google-cloud-bigquery 2.30.0 used here, and
\* one keyword that is no property of the class.
RecognisedKeys == {"destination_format", "print_header"}
ConfigItems ==
  {<<"destination_format", "CSV">>, <<"print_header", "False">>, <<"unknown_key", "x">>}
\* A dict is a set of (key, value) items with distinct keys.
Dicts == SUBSET ConfigItems
JobConfigArgs == {None} \cup {Some(d) : d \in Dicts}

\* ---------------------------------------------------------- exceptions
NoError == [cls |-> "None", arg |-> "None"]
\* Subclasses of GoogleCloudError (= google.api_core GoogleAPICallError).
GoogleCloudErrors ==
  {[cls |-> "BadRequest", arg |-> "job failed"], [cls |-> "Forbidden", arg |-> "access denied"]}
\* Errors raised by the client that are no GoogleCloudError.
ClientSideErrors == {[cls |-> "RetryError", arg |-> "deadline exceeded"]}
CallErrors == GoogleCloudErrors \cup ClientSideErrors
isinstance_GoogleCloudError(e) == e \in GoogleCloudErrors

ErrorResults == {"None", "invalid"}

VARIABLES
  bq_client_project_id, source_project_id, dataset_id, table_name, dataset,
  dataset_location, extract_job_config_arg, file_pattern,
  full_table_id, extract_job_config, table, job_config, client,
  dataset_uri, dataset_directory, extract_job, e,
  requests, log, pc, returned, raised

args == <<bq_client_project_id, source_project_id, dataset_id, table_name, dataset,
          dataset_location, extract_job_config_arg, file_pattern>>
locals == <<full_table_id, extract_job_config, table, job_config, client,
            dataset_uri, dataset_directory, extract_job, e>>
vars == <<args, locals, requests, log, pc, returned, raised>>

\* ------------------------------------------------------ pure functions
Last(s) == s[Len(s)]

\* f"{source_project_id}.{dataset_id}.{table_name}"
FormatFullTableId(p, d, t) == p \o <<".">> \o d \o <<".">> \o t

\* str.split("."): the number of parts is one more than the number of dots.
CountDots(s) == Cardinality({i \in 1..Len(s) : s[i] = "."})
SplitCount(s) == CountDots(s) + 1

\* Table(table_ref=str) parses the id with TableReference.from_string, which
\* raises ValueError unless the id has exactly three dot-separated parts (no
\* default project is given).  IdChars has no ":", so the legacy
\* "domain:project" prefix form never applies.
ValidTableRef(s) == SplitCount(s) = 3

\* Variant: a non-empty default configuration.
NormaliseConfig_DefaultCsv(c) ==
  IF c.isNone THEN {<<"destination_format", "CSV">>} ELSE c.val

\* if extract_job_config is None: extract_job_config = {}
NormaliseConfig(c) == IF c.isNone THEN {} ELSE c.val

\* ExtractJobConfig(**kwargs) setattr's every keyword; _JobConfig.__setattr__
\* raises AttributeError for a name that is no property of the class.
ConfigKeys(d) == {it[1] : it \in d}
ValidJobConfig(d) == ConfigKeys(d) \subseteq RecognisedKeys

\* The property setters store the value under the API field name.
ApiName(k) == IF k = "destination_format" THEN "destinationFormat" ELSE "printHeader"
ExtractJobConfig(d) == {<<ApiName(it[1]), it[2]>> : it \in d}

\* Variant: `if file_pattern is not None:`.
Truthy_IsNotNone(fp) == ~fp.isNone

\* `if file_pattern:` -- truthiness of an optional string.
Truthy(fp) == ~fp.isNone /\ fp.val # <<>>

\* Variant: plain concatenation, no separator inserted.
os_path_join_NoSeparator(a, b) ==
  IF b # <<>> /\ b[1] = sep THEN b ELSE a \o b

\* posixpath.join(a, b)
os_path_join(a, b) ==
  IF b # <<>> /\ b[1] = sep THEN b
  ELSE IF a = <<>> \/ Last(a) = sep THEN a \o b
  ELSE a \o <<sep>> \o b

\* p.rfind(sep) + 1
RFindPlus1(p) ==
  LET idx == {i \in 1..Len(p) : p[i] = sep}
  IN IF idx = {} THEN 0 ELSE CHOOSE i \in idx : \A j \in idx : j <= i

RECURSIVE RStripSep(_)
RStripSep(s) ==
  IF s # <<>> /\ Last(s) = sep THEN RStripSep(SubSeq(s, 1, Len(s) - 1)) ELSE s

AllSep(s) == \A i \in 1..Len(s) : s[i] = sep

\* Variant: the head is not stripped of its trailing separators.
os_path_dirname_NoRStrip(p) == SubSeq(p, 1, RFindPlus1(p))

\* posixpath.dirname(p)
os_path_dirname(p) ==
  LET head == SubSeq(p, 1, RFindPlus1(p))
  IN IF head # <<>> /\ ~AllSep(head) THEN RStripSep(head) ELSE head

\* ------------------------------------------------------------ log records
LogRec(level, kind, val) == [level |-> level, kind |-> kind, val |-> val]

NoJob == [state |-> "none", error_result |-> "None", errors |-> <<>>]
NoResult == [done |-> FALSE, dataset_gcs_prefix |-> <<>>, dataset_gcs_uri |-> <<>>]

\* ------------------------------------------------------------------- Init
Init ==
  /\ bq_client_project_id \in ProjectIds
  /\ source_project_id \in ProjectIds
  /\ dataset_id \in DatasetIds
  /\ table_name \in TableNames
  /\ dataset \in {[uri |-> u] : u \in Uris}
  /\ dataset_location \in Locations
  /\ extract_job_config_arg \in JobConfigArgs
  /\ file_pattern \in FilePatterns
  /\ full_table_id = <<>>
  /\ extract_job_config = {}
  /\ table = None
  /\ job_config = None
  /\ client = None
  /\ dataset_uri = <<>>
  /\ dataset_directory = <<>>
  /\ extract_job = NoJob
  /\ e = NoError
  /\ requests = <<>>
  /\ log = <<>>
  /\ pc = "table"
  /\ returned = NoResult
  /\ raised = NoError

\* An exception leaves the function: nothing else changes.
Raise(exc) ==
  /\ pc' = "raised"
  /\ raised' = exc

\* ----------------------------------------------------------------- actions
\* lines 62-67: table id, default of the job configuration, table reference
BuildTable ==
  /\ pc = "table"
  /\ full_table_id' = FormatFullTableId(source_project_id, dataset_id, table_name)
  /\ extract_job_config' = NormaliseConfig(extract_job_config_arg)
  /\ IF ValidTableRef(full_table_id')
     THEN /\ table' = Some(full_table_id')
          /\ pc' = "job_config"
          /\ UNCHANGED raised
     ELSE /\ Raise([cls |-> "ValueError", arg |-> "table_id"])
          /\ UNCHANGED table
  /\ UNCHANGED <<args, job_config, client, dataset_uri, dataset_directory,
                 extract_job, e, requests, log, returned>>

\* Variant: the configuration is stored without the constructor's check.
BuildJobConfig_Unvalidated ==
  /\ pc = "job_config"
  /\ job_config' = Some(ExtractJobConfig(extract_job_config))
  /\ pc' = "client"
  /\ UNCHANGED <<args, full_table_id, extract_job_config, table, client, dataset_uri,
                 dataset_directory, extract_job, e, requests, log, returned, raised>>

\* line 68
BuildJobConfig ==
  /\ pc = "job_config"
  /\ IF ValidJobConfig(extract_job_config)
     THEN /\ job_config' = Some(ExtractJobConfig(extract_job_config))
          /\ pc' = "client"
          /\ UNCHANGED raised
     ELSE /\ Raise([cls |-> "AttributeError", arg |-> "unknown property"])
          /\ UNCHANGED job_config
  /\ UNCHANGED <<args, full_table_id, extract_job_config, table, client, dataset_uri,
                 dataset_directory, extract_job, e, requests, log, returned>>

\* lines 69-71: the client resolves credentials and may fail to.
BuildClient ==
  /\ pc = "client"
  /\ \/ /\ client' = Some([project |-> bq_client_project_id, location |-> dataset_location])
        /\ pc' = "derive"
        /\ UNCHANGED raised
     \/ /\ Raise([cls |-> "DefaultCredentialsError", arg |-> "no credentials"])
        /\ UNCHANGED client
  /\ UNCHANGED <<args, full_table_id, extract_job_config, table, job_config, dataset_uri,
                 dataset_directory, extract_job, e, requests, log, returned>>

\* lines 73-79
DeriveDestination ==
  /\ pc = "derive"
  /\ dataset_uri' = IF Truthy(file_pattern)
                    THEN os_path_join(dataset.uri, file_pattern.val)
                    ELSE dataset.uri
  /\ dataset_directory' = os_path_dirname(dataset_uri')
  /\ log' = Append(log, LogRec("INFO", "extract", <<table.val, dataset_uri'>>))
  /\ pc' = "submit"
  /\ UNCHANGED <<args, full_table_id, extract_job_config, table, job_config, client,
                 extract_job, e, requests, returned, raised>>

\* Variant: the function returns without waiting for the job.
SubmitExtract_NoWait ==
  /\ pc = "submit"
  /\ requests' = Append(requests, [source |-> table.val,
                                   destination_uris |-> dataset_uri,
                                   job_config |-> job_config.val,
                                   project |-> client.val.project,
                                   location |-> client.val.location])
  /\ \/ /\ extract_job' = [state |-> "submitted", error_result |-> "None", errors |-> <<>>]
        /\ pc' = "return"
        /\ UNCHANGED raised
     \/ /\ \E err \in CallErrors : Raise(err)
        /\ UNCHANGED extract_job
  /\ UNCHANGED <<args, full_table_id, extract_job_config, table, job_config, client,
                 dataset_uri, dataset_directory, e, log, returned>>

\* Variant: the job is sent to dataset.uri, not to the derived dataset_uri.
SubmitExtract_BaseUri ==
  /\ pc = "submit"
  /\ requests' = Append(requests, [source |-> table.val,
                                   destination_uris |-> dataset.uri,
                                   job_config |-> job_config.val,
                                   project |-> client.val.project,
                                   location |-> client.val.location])
  /\ \/ /\ extract_job' = [state |-> "submitted", error_result |-> "None", errors |-> <<>>]
        /\ pc' = "wait"
        /\ UNCHANGED raised
     \/ /\ \E err \in CallErrors : Raise(err)
        /\ UNCHANGED extract_job
  /\ UNCHANGED <<args, full_table_id, extract_job_config, table, job_config, client,
                 dataset_uri, dataset_directory, e, log, returned>>

\* lines 80-84: client.extract_table sends the job to the backend, or raises.
SubmitExtract ==
  /\ pc = "submit"
  /\ requests' = Append(requests, [source |-> table.val,
                                   destination_uris |-> dataset_uri,
                                   job_config |-> job_config.val,
                                   project |-> client.val.project,
                                   location |-> client.val.location])
  /\ \/ /\ extract_job' = [state |-> "submitted", error_result |-> "None", errors |-> <<>>]
        /\ pc' = "wait"
        /\ UNCHANGED raised
     \/ /\ \E err \in CallErrors : Raise(err)
        /\ UNCHANGED extract_job
  /\ UNCHANGED <<args, full_table_id, extract_job_config, table, job_config, client,
                 dataset_uri, dataset_directory, e, log, returned>>

\* lines 87-88: extract_job.result() returns once the job is done.
WaitCompleted ==
  /\ pc = "wait"
  /\ extract_job' = [extract_job EXCEPT !.state = "completed"]
  /\ log' = Append(log, LogRec("INFO", "result", extract_job'.state))
  /\ pc' = "return"
  /\ UNCHANGED <<args, full_table_id, extract_job_config, table, job_config, client,
                 dataset_uri, dataset_directory, e, requests, returned, raised>>

\* lines 87, 89: extract_job.result() raises: the job has failed as far as the
\* invocation is concerned (the error has surfaced), with or without an
\* error_result on the job.  A GoogleCloudError enters the handler; any other
\* exception leaves the function at once.
WaitFailed ==
  /\ pc = "wait"
  /\ \E err \in CallErrors, er \in ErrorResults :
       /\ extract_job' = [state |-> "failed", error_result |-> er,
                          errors |-> IF er = "None" THEN <<>> ELSE <<er>>]
       /\ IF isinstance_GoogleCloudError(err)
          THEN /\ e' = err
               /\ pc' = "except"
               /\ UNCHANGED raised
          ELSE /\ Raise(err)
               /\ UNCHANGED e
  /\ UNCHANGED <<args, full_table_id, extract_job_config, table, job_config, client,
                 dataset_uri, dataset_directory, requests, log, returned>>

\* Variant: the handler logs nothing.
LogError_Skipped ==
  /\ pc = "except"
  /\ pc' = "reraise"
  /\ UNCHANGED <<args, locals, requests, log, returned, raised>>

\* lines 90-92
LogError ==
  /\ pc = "except"
  /\ log' = log \o << LogRec("ERROR", "exception", e),
                      LogRec("ERROR", "error_result", extract_job.error_result),
                      LogRec("ERROR", "errors", extract_job.errors) >>
  /\ pc' = "reraise"
  /\ UNCHANGED <<args, locals, requests, returned, raised>>

\* Variant: the handler swallows the error and falls through to the return.
Reraise_Swallowed ==
  /\ pc = "reraise"
  /\ pc' = "return"
  /\ UNCHANGED <<args, locals, requests, log, returned, raised>>

\* Variant: the handler submits the job once more before giving up.
Reraise_Resubmit ==
  /\ pc = "reraise"
  /\ IF Len(requests) < 2
     THEN /\ pc' = "submit"
          /\ UNCHANGED raised
     ELSE Raise(e)
  /\ UNCHANGED <<args, locals, requests, log, returned>>

\* line 93
Reraise ==
  /\ pc = "reraise"
  /\ Raise(e)
  /\ UNCHANGED <<args, locals, requests, log, returned>>

\* line 95
Return ==
  /\ pc = "return"
  /\ returned' = [done |-> TRUE, dataset_gcs_prefix |-> dataset_directory,
                  dataset_gcs_uri |-> <<dataset_uri>>]
  /\ pc' = "returned"
  /\ UNCHANGED <<args, locals, requests, log, raised>>

Next ==
  \/ BuildTable
  \/ BuildJobConfig
  \/ BuildClient
  \/ DeriveDestination
  \/ SubmitExtract
  \/ WaitCompleted
  \/ WaitFailed
  \/ LogError
  \/ Reraise
  \/ Return

Spec == Init /\ [][Next]_vars

\* The interpreter runs every statement it reaches.
FairSpec == Spec /\ WF_vars(Next)

\* ------------------------------------------------------- claim vocabulary
EndsWithSep(s) == s # <<>> /\ Last(s) = sep
NoSep(s) == \A i \in 1..Len(s) : s[i] # sep

\* base and p as one path: p is a further segment of base.
JoinedAsSegment(base, p) ==
  IF base = <<>> \/ EndsWithSep(base) THEN base \o p ELSE base \o <<sep>> \o p

\* d is the parent of path p: p is cut after its last separator (nothing is
\* left when it has none), and the separators that end the cut are dropped
\* unless the cut consists of separators only.
IsParentOf(d, p) ==
  \E i \in 0..Len(p) :
    /\ i = 0 \/ p[i] = sep
    /\ \A j \in (i + 1)..Len(p) : p[j] # sep
    /\ IF \A j \in 1..i : p[j] = sep
       THEN d = SubSeq(p, 1, i)
       ELSE /\ Len(d) \in 1..i
            /\ d = SubSeq(p, 1, Len(d))
            /\ Last(d) # sep
            /\ \A j \in (Len(d) + 1)..i : p[j] = sep

Misconfigured ==
  \/ SplitCount(source_project_id \o <<".">> \o dataset_id \o <<".">> \o table_name) # 3
  \/ /\ ~extract_job_config_arg.isNone
     /\ \E it \in extract_job_config_arg.val : it[1] \notin RecognisedKeys

ErrorLogTail(err, job) ==
  << LogRec("ERROR", "exception", err),
     LogRec("ERROR", "error_result", job.error_result),
     LogRec("ERROR", "errors", job.errors) >>

\* ----------------------------------------------------------------- claims

\* C1 as stated: for every provided file_pattern p and every base
\* destination, the returned URI is the base joined with p and the returned
\* directory is the base itself.
C1_AsStated ==
  (returned.done /\ Truthy(file_pattern)) =>
    /\ returned.dataset_gcs_uri = <<JoinedAsSegment(dataset.uri, file_pattern.val)>>
    /\ returned.dataset_gcs_prefix = dataset.uri

\* C1 (amended): when the provided file_pattern p contains no "/" and the
\* base destination does not end in "/", the returned URI is the base joined
\* with p as one further segment and the returned directory is the base.
C1_JoinSingleSegment ==
  (/\ returned.done
   /\ Truthy(file_pattern)
   /\ NoSep(file_pattern.val)
   /\ ~EndsWithSep(dataset.uri)) =>
    /\ returned.dataset_gcs_uri = <<JoinedAsSegment(dataset.uri, file_pattern.val)>>
    /\ returned.dataset_gcs_prefix = dataset.uri

C1_Witness ==
  /\ returned.done
  /\ Truthy(file_pattern)
  /\ NoSep(file_pattern.val)
  /\ dataset.uri # <<>>
  /\ ~EndsWithSep(dataset.uri)
  /\ Len(returned.dataset_gcs_uri[1]) = Len(dataset.uri) + 1 + Len(file_pattern.val)

\* C2: without a file_pattern (None) the single returned URI is dataset.uri
\* unchanged and the returned directory is the parent of dataset.uri.
C2_NoPatternResult ==
  (returned.done /\ file_pattern.isNone) =>
    /\ returned.dataset_gcs_uri = <<dataset.uri>>
    /\ IsParentOf(returned.dataset_gcs_prefix, dataset.uri)

C2_Witness ==
  /\ returned.done
  /\ file_pattern.isNone
  /\ ~NoSep(dataset.uri)
  /\ returned.dataset_gcs_prefix # <<>>
  /\ returned.dataset_gcs_prefix # dataset.uri

\* C3: an error the backend reports while the invocation waits for the job
\* (a GoogleCloudError raised by extract_job.result()) is logged -- the error,
\* then the job's error_result, then its errors -- before it is raised, and
\* the error raised is the one received: it is never raised unlogged and never
\* replaced by another error.
C3_LoggedThenReraised ==
  /\ (pc \in {"reraise", "raised"} /\ e # NoError) =>
       /\ Len(log) >= 3
       /\ SubSeq(log, Len(log) - 2, Len(log)) = ErrorLogTail(e, extract_job)
  /\ (pc = "raised" /\ e # NoError) => raised = e
  /\ (pc = "raised" /\ extract_job.state = "failed") =>
       /\ raised \in CallErrors
       /\ isinstance_GoogleCloudError(raised) => e = raised

C3_Witness ==
  /\ pc = "raised"
  /\ extract_job.state = "failed"
  /\ isinstance_GoogleCloudError(raised)
  /\ extract_job.error_result # "None"
  /\ Len(log) = 4
  /\ log[2].val = raised

\* C4: a failing invocation produces no output: the result is returned only
\* when the job completed, and no invocation both raises and returns.
C4_NoOutputOnFailure ==
  /\ returned.done => (extract_job.state = "completed" /\ raised = NoError /\ pc = "returned")
  /\ (pc = "raised" \/ raised # NoError) => returned = NoResult
  /\ extract_job.state = "failed" => returned = NoResult

C4_Witness ==
  /\ pc = "raised"
  /\ extract_job.state = "failed"
  /\ returned = NoResult

\* C5: a misconfigured invocation (table id that is no project.dataset.table,
\* or a job-configuration key the schema does not know) never gets past
\* request construction: no client is created and no extract job is
\* submitted, and what it raises is the constructor's own error.
C5_FailsBeforeNetwork ==
  /\ Misconfigured =>
       /\ pc \in {"table", "job_config", "raised"}
       /\ client = None
       /\ requests = <<>>
       /\ extract_job = NoJob
       /\ pc = "raised" => raised.cls \in {"ValueError", "AttributeError"}
  /\ raised.cls \in {"ValueError", "AttributeError"} =>
       /\ Misconfigured
       /\ requests = <<>>
       /\ client = None

C5_Witness ==
  /\ pc = "raised"
  /\ raised.cls = "AttributeError"
  /\ table # None
  /\ requests = <<>>

\* C6: with extract_job_config = None the job configuration built and sent
\* with the extract job is the empty one, as it is for an empty mapping.
C6_NoneIsEmptyConfig ==
  (extract_job_config_arg = None \/ extract_job_config_arg = Some({})) =>
    /\ pc # "table" => extract_job_config = {}
    /\ job_config # None => job_config = Some({})
    /\ \A i \in 1..Len(requests) : requests[i].job_config = {}

C6_Witness ==
  /\ extract_job_config_arg = None
  /\ Len(requests) = 1
  /\ requests[1].job_config = {}

\* C7: an empty file_pattern (None or "") exports to a single file: the
\* destination sent to the backend and the returned URI are dataset.uri
\* unchanged.
C7_EmptyPatternSingleFile ==
  (file_pattern.isNone \/ file_pattern.val = <<>>) =>
    /\ \A i \in 1..Len(requests) : requests[i].destination_uris = dataset.uri
    /\ returned.done => returned.dataset_gcs_uri = <<dataset.uri>>

C7_Witness ==
  /\ file_pattern = Some(<<>>)
  /\ dataset.uri # <<>>
  /\ ~EndsWithSep(dataset.uri)
  /\ Len(requests) = 1
  /\ returned.done

\* C8: the job of an invocation goes submitted -> completed or submitted ->
\* failed and nowhere else; completed and failed are final; the invocation
\* returns only with the job completed, an invocation that has a job raises
\* only with the job failed, and it neither returns nor raises while the job
\* is still submitted.
JobTransitions ==
  {<<"none", "submitted">>, <<"submitted", "completed">>, <<"submitted", "failed">>}

C8_JobStateMachine ==
  /\ [][extract_job'.state # extract_job.state =>
          <<extract_job.state, extract_job'.state>> \in JobTransitions]_vars
  /\ [](pc \in {"return", "returned"} => extract_job.state = "completed")
  /\ []((pc \in {"except", "reraise", "raised"} /\ extract_job.state # "none") =>
          extract_job.state = "failed")
  /\ [](pc \in {"returned", "raised"} => extract_job.state # "submitted")
  /\ [](extract_job.state = "submitted" => pc = "wait")

C8_Witness ==
  /\ pc = "returned"
  /\ extract_job.state = "completed"
  /\ returned.done

\* C9: an invocation submits at most one extract job; after the job failed
\* nothing is submitted again and the job is not waited on again, and the
\* invocation goes on to raise.
C9_NoRetry ==
  /\ [](Len(requests) <= 1)
  /\ [][extract_job.state = "failed" =>
          (requests' = requests /\ extract_job' = extract_job
           /\ pc' \in {"except", "reraise", "raised"})]_vars
  /\ (extract_job.state = "failed" ~> pc = "raised")

C9_Witness ==
  /\ pc = "raised"
  /\ extract_job.state = "failed"
  /\ Len(requests) = 1
  /\ e # NoError

\* C10: on success the returned list holds exactly one URI, the destination
\* sent to the backend in the one extract request for the table
\* source_project_id.dataset_id.table_name, and the returned directory is
\* the parent of that destination.
C10_ResultNamesDestination ==
  returned.done =>
    /\ Len(requests) = 1
    /\ requests[1].source = source_project_id \o <<".">> \o dataset_id \o <<".">> \o table_name
    /\ Len(returned.dataset_gcs_uri) = 1
    /\ returned.dataset_gcs_uri[1] = requests[1].destination_uris
    /\ IsParentOf(returned.dataset_gcs_prefix, requests[1].destination_uris)

C10_Witness ==
  /\ returned.done
  /\ Truthy(file_pattern)
  /\ Len(requests) = 1
  /\ requests[1].destination_uris # dataset.uri
  /\ returned.dataset_gcs_prefix # <<>>
====
